---------------------------- MODULE Spec2Model ----------------------------
(***************************************************************************)
(* consistent_df: nest / unnest of data frames (consistent_df/nest.py),    *)
(* enforce_schema / enforce_dtypes (consistent_df/enforce_schema.py,       *)
(* consistent_df/enforce_dtypes.py), df_to_consistent_str                  *)
(* (consistent_df/string.py) and assert_frame_equal                        *)
(* (consistent_df/testing.py).                                             *)
(*                                                                         *)
(* A data frame is a record [cols, index, rows]: the column labels in      *)
(* order, the row labels in order, and the rows, each a sequence of cells  *)
(* aligned with cols.  A cell is a scalar value, a missing value (NaN /    *)
(* None in a data column), a nested data frame, the Python None of an      *)
(* object column, or some other Python object.                             *)
(***************************************************************************)
EXTENDS Integers, Sequences, FiniteSets, TLC

VARIABLES
    df,     \* the data frame the caller passes to the first call, as built
    call,   \* the first call: [op, columns, key]
    out,    \* what the first call returned or raised
    back,   \* what the follow-up call (the inverse call on out's frame, the
            \* same call on other) returned or raised
    pc,     \* "start", "called", "back"
    schema, \* the schema frame the caller passes to enforce_schema
    opts,   \* the other arguments of enforce_schema / enforce_dtypes
    data,   \* the caller's data frame object as it is now
    shared, \* whether the last call returned the object it was passed
    other   \* a second frame the caller holds: df reshuffled, or the frame
            \* df is compared with

vars == <<df, call, out, back, pc, schema, opts, data, shared, other>>

----------------------------------------------------------------------------
(* Bounds of the model *)

MaxRows  == 3    \* rows of a long-format frame
MaxOuter == 2    \* rows of a frame with a nested column
MaxInner == 2    \* rows of one nested frame
MaxData  == 2    \* rows of a frame given to enforce_schema
MaxLines == 3    \* rows of a frame given to df_to_consistent_str
MaxPair  == 2    \* rows of a frame given to assert_frame_equal

----------------------------------------------------------------------------
(* Cells and frames *)

NoFrame == [cols |-> <<>>, index |-> <<>>, rows |-> <<>>]

Val(v)   == [kind |-> "val",   val |-> v, frame |-> NoFrame]
NA       == [kind |-> "na",    val |-> 0, frame |-> NoFrame]
None     == [kind |-> "none",  val |-> 0, frame |-> NoFrame]
Other    == [kind |-> "other", val |-> 0, frame |-> NoFrame]
Frame(t) == [kind |-> "df",    val |-> 0, frame |-> t]

Range(s) == {s[i] : i \in DOMAIN s}

RangeIndex(n) == [i \in 1..n |-> i - 1]

\* position of label c among the columns of t
ColPos(t, c) == CHOOSE i \in DOMAIN t.cols :
                    t.cols[i] = c /\ \A j \in 1..(i - 1) : t.cols[j] # c

\* t[c]: the cells of column c, in row order
Column(t, c) == [r \in DOMAIN t.rows |-> t.rows[r][ColPos(t, c)]]

\* t[names]: the columns names, in the order of names
Select(t, names) ==
    [cols  |-> names,
     index |-> t.index,
     rows  |-> [r \in DOMAIN t.rows |->
                  [i \in DOMAIN names |-> t.rows[r][ColPos(t, names[i])]]]]

\* t.iloc[positions]
TakeRows(t, positions) ==
    [cols  |-> t.cols,
     index |-> [i \in DOMAIN positions |-> t.index[positions[i]]],
     rows  |-> [i \in DOMAIN positions |-> t.rows[positions[i]]]]

\* t.reset_index(drop=True)
ResetIndex(t) == [t EXCEPT !.index = RangeIndex(Len(t.rows))]

\* t.empty: no rows or no columns
Empty(t) == Len(t.rows) = 0 \/ Len(t.cols) = 0

\* t.drop(columns=names), all of names being columns of t
DropColumns(t, names) ==
    Select(t, SelectSeq(t.cols, LAMBDA c : c \notin Range(names)))

\* t[name] = cells: replaces the column, or appends it
SetColumn(t, name, cells) ==
    IF name \in Range(t.cols)
    THEN [t EXCEPT !.rows = [r \in DOMAIN t.rows |->
                               [t.rows[r] EXCEPT ![ColPos(t, name)] = cells[r]]]]
    ELSE [t EXCEPT !.cols = Append(t.cols, name),
                   !.rows = [r \in DOMAIN t.rows |-> Append(t.rows[r], cells[r])]]

----------------------------------------------------------------------------
(* Results of a call *)

Returned(t)       == [err |-> "", names |-> <<>>, frame |-> t]
Raised(e, names)  == [err |-> e, names |-> names, frame |-> NoFrame]
NotCalled         == [err |-> "not called", names |-> <<>>, frame |-> NoFrame]
NoCall            == [op |-> "", columns |-> <<>>, key |-> ""]

----------------------------------------------------------------------------
(* groupby(group_columns, dropna=False), sort=True being the default *)

\* a < b with a missing value sorting before every value
CellLessNaFirst(a, b) ==
    /\ b.kind = "val"
    /\ \/ a.kind = "na"
       \/ a.kind = "val" /\ a.val < b.val

\* a < b for two group-key cells; a missing value sorts after every value
CellLess(a, b) ==
    /\ a.kind = "val"
    /\ \/ b.kind = "na"
       \/ b.kind = "val" /\ a.val < b.val

TupleLess(a, b) ==
    \E i \in DOMAIN a :
        /\ \A j \in 1..(i - 1) : a[j] = b[j]
        /\ CellLess(a[i], b[i])

\* groupby(group_columns[0]): the rows keyed by the first grouping column only
RowKeysFirstColumn(t, group_columns) ==
    Select(t, SubSeq(group_columns, 1, 1)).rows

\* the group key of every row, in row order
RowKeys(t, group_columns) == Select(t, group_columns).rows

\* the distinct keys in order of first appearance
RECURSIVE Uniques(_)
Uniques(s) ==
    IF s = <<>> THEN <<>>
    ELSE LET n == Len(s)
             u == Uniques(SubSeq(s, 1, n - 1))
         IN IF s[n] \in Range(u) THEN u ELSE Append(u, s[n])

\* groupby(..., sort=False): the keys as they come
UnsortedKeys(keys) == keys

\* the keys ascending, missing values last
SortKeys(keys) ==
    [i \in DOMAIN keys |->
        CHOOSE k \in Range(keys) :
            Cardinality({j \in Range(keys) : TupleLess(j, k)}) = i - 1]

\* groupby(group_columns) with dropna left at its default: rows with a missing
\* value in a grouping column belong to no group
GroupKeysDropNA(t, group_columns) ==
    SortKeys(Uniques(SelectSeq(RowKeys(t, group_columns),
                               LAMBDA k : \A p \in DOMAIN k : k[p].kind # "na")))

\* the group keys in the order groupby yields the groups
GroupKeys(t, group_columns) == SortKeys(Uniques(RowKeys(t, group_columns)))

\* the first row of the group with key k only
FirstPosition(t, group_columns, k) ==
    LET keys == RowKeys(t, group_columns)
    IN <<CHOOSE i \in DOMAIN keys :
             keys[i] = k /\ \A j \in 1..(i - 1) : keys[j] # k>>

\* the positions of the rows of the group with key k, ascending
GroupPositions(t, group_columns, k) ==
    LET keys == RowKeys(t, group_columns)
        F[i \in 0..Len(keys)] ==
            IF i = 0 THEN <<>>
            ELSE IF keys[i] = k THEN Append(F[i - 1], i) ELSE F[i - 1]
    IN F[Len(keys)]

\* grouped[c].first(): the first non-missing cell of the group, if any
FirstCell(cells) ==
    IF \E i \in DOMAIN cells : cells[i].kind # "na"
    THEN cells[CHOOSE i \in DOMAIN cells :
                   /\ cells[i].kind # "na"
                   /\ \A j \in 1..(i - 1) : cells[j].kind = "na"]
    ELSE NA

----------------------------------------------------------------------------
(* nest(df, columns, key) *)

missing_columns(t, columns) ==
    SelectSeq(columns, LAMBDA c : c \notin Range(t.cols))

\* `key in df.columns` alone
KeyInFrame(t, columns, key) == key \in Range(t.cols)

KeyExists(t, columns, key) ==
    key \in Range(t.cols) /\ key \notin Range(columns)

\* the empty frame given the key column without dropping `columns`
empty_result_keep_columns(t, columns, key) == SetColumn(t, key, <<>>)

empty_result(t, columns, key) ==
    SetColumn(DropColumns(t, columns), key, <<>>)

group_columns(t, columns) ==
    SelectSeq(t.cols, LAMBDA c : c \notin Range(columns))

\* x[columns] without reset_index(drop=True)
nested_dfs_keep_index(t, columns) ==
    LET gc == group_columns(t, columns)
        gk == GroupKeys(t, gc)
    IN [g \in DOMAIN gk |->
          Select(TakeRows(t, GroupPositions(t, gc, gk[g])), columns)]

\* one frame per group, in group order
nested_dfs(t, columns) ==
    LET gc == group_columns(t, columns)
        gk == GroupKeys(t, gc)
    IN [g \in DOMAIN gk |->
          ResetIndex(Select(TakeRows(t, GroupPositions(t, gc, gk[g])), columns))]

\* grouped[group_columns].first(), one row per group, in group order
first_rows(t, columns) ==
    LET gc == group_columns(t, columns)
        gk == GroupKeys(t, gc)
    IN [cols  |-> gc,
        index |-> RangeIndex(Len(gk)),
        rows  |-> [g \in DOMAIN gk |->
                     LET members == TakeRows(t, GroupPositions(t, gc, gk[g]))
                     IN [i \in DOMAIN gc |-> FirstCell(Column(members, gc[i]))]]]

\* nest with the key checked before the columns
nest_key_first(t, columns, key) ==
    IF KeyExists(t, columns, key)
    THEN Raised("key column already exists", <<key>>)
    ELSE IF missing_columns(t, columns) # <<>>
    THEN Raised("columns missing in df", missing_columns(t, columns))
    ELSE IF Empty(t)
    THEN Returned(empty_result(t, columns, key))
    ELSE IF group_columns(t, columns) = <<>>
    THEN Raised("No group keys passed!", <<>>)
    ELSE LET inner == nested_dfs(t, columns)
         IN Returned(ResetIndex(
                SetColumn(first_rows(t, columns), key,
                          [g \in DOMAIN inner |-> Frame(inner[g])])))

nest(t, columns, key) ==
    IF missing_columns(t, columns) # <<>>
    THEN Raised("columns missing in df", missing_columns(t, columns))
    ELSE IF KeyExists(t, columns, key)
    THEN Raised("key column already exists", <<key>>)
    ELSE IF Empty(t)
    THEN Returned(empty_result(t, columns, key))
    ELSE IF group_columns(t, columns) = <<>>
    THEN Raised("No group keys passed!", <<>>)
    ELSE LET inner == nested_dfs(t, columns)
         IN Returned(ResetIndex(
                SetColumn(first_rows(t, columns), key,
                          [g \in DOMAIN inner |-> Frame(inner[g])])))

----------------------------------------------------------------------------
(* unnest(df, key) *)

\* some cell of the key column is a data frame or None
SomeFrames(t, key) ==
    \E r \in DOMAIN t.rows : Column(t, key)[r].kind \in {"df", "none"}

\* every cell of the key column is a data frame or None
OnlyFrames(t, key) ==
    \A r \in DOMAIN t.rows : Column(t, key)[r].kind \in {"df", "none"}

AllNone(t, key) ==
    \A r \in DOMAIN t.rows : Column(t, key)[r].kind = "none"

\* the column labels of the frames in cells, in order of first appearance
RECURSIVE ConcatColumns(_)
ConcatColumns(cells) ==
    IF cells = <<>> THEN <<>>
    ELSE LET n    == Len(cells)
             seen == ConcatColumns(SubSeq(cells, 1, n - 1))
         IN IF cells[n].kind # "df" THEN seen
            ELSE seen \o SelectSeq(cells[n].frame.cols,
                                   LAMBDA c : c \notin Range(seen))

\* one row of frame t laid out on the columns names, missing where t has none
Reindexed(t, r, names) ==
    [i \in DOMAIN names |->
        IF names[i] \in Range(t.cols) THEN t.rows[r][ColPos(t, names[i])] ELSE NA]

\* pd.concat of {position: frame}, None dropped, labelled by outer position
RECURSIVE ConcatRows(_, _)
ConcatRows(cells, names) ==
    IF cells = <<>> THEN NoFrame
    ELSE LET n    == Len(cells)
             head == ConcatRows(SubSeq(cells, 1, n - 1), names)
             t    == cells[n].frame
         IN IF cells[n].kind # "df" THEN head
            ELSE [cols  |-> names,
                  index |-> head.index \o [r \in DOMAIN t.rows |-> n - 1],
                  rows  |-> head.rows \o
                            [r \in DOMAIN t.rows |-> Reindexed(t, r, names)]]

flat_dfs(t, key) ==
    IF AllNone(t, key) THEN NoFrame
    ELSE LET cells == Column(ResetIndex(t), key)
             names == ConcatColumns(cells)
         IN [ConcatRows(cells, names) EXCEPT !.cols = names]

\* the right frame's labels taken as they are, a clash with left unnoticed
Unsuffixed(left, c) == c

\* the label of a column of the right frame after the join
Suffixed(left, c) == IF c \in Range(left.cols) THEN c \o "_nested" ELSE c

\* left.join(right, how="left", rsuffix="_nested"): every row of left is kept,
\* with missing values where right has no row for it
JoinLeft(left, right) ==
    LET positions == [i \in DOMAIN right.rows |-> i]
        Matches(r) == SelectSeq(positions, LAMBDA i : right.index[i] = r - 1)
        Rows[r \in 0..Len(left.rows)] ==
            IF r = 0 THEN <<>>
            ELSE IF Matches(r) = <<>>
            THEN Append(Rows[r - 1],
                        <<r - 1, left.rows[r] \o [j \in DOMAIN right.cols |-> NA]>>)
            ELSE Rows[r - 1] \o
                 [m \in DOMAIN Matches(r) |->
                    <<r - 1, left.rows[r] \o right.rows[Matches(r)[m]]>>]
        joined == Rows[Len(left.rows)]
    IN [cols  |-> left.cols \o
                  [i \in DOMAIN right.cols |-> Suffixed(left, right.cols[i])],
        index |-> [n \in DOMAIN joined |-> joined[n][1]],
        rows  |-> [n \in DOMAIN joined |-> joined[n][2]]]

\* left.join(right, how="right", rsuffix="_nested"), left having a RangeIndex
JoinRight(left, right) ==
    [cols  |-> left.cols \o [i \in DOMAIN right.cols |-> Suffixed(left, right.cols[i])],
     index |-> right.index,
     rows  |-> [i \in DOMAIN right.rows |->
                  left.rows[right.index[i] + 1] \o right.rows[i]]]

\* the labels left as the join gives them: positions in the outer frame
KeepPositions(t, result) == result

\* result.index = df.index[result.index]
RestoreIndex(t, result) ==
    [result EXCEPT !.index = [i \in DOMAIN result.index |->
                                t.index[result.index[i] + 1]]]

unnest(t, key) ==
    IF Empty(t)
    THEN IF key \in Range(t.cols)
         THEN Returned(DropColumns(t, <<key>>))
         ELSE Raised("KeyError", <<key>>)
    ELSE IF key \notin Range(t.cols)
    THEN Raised("Key column not found in df", <<key>>)
    ELSE IF ~OnlyFrames(t, key)
    THEN Raised("All items in column must be DataFrames", <<key>>)
    ELSE Returned(RestoreIndex(t,
            JoinRight(DropColumns(ResetIndex(t), <<key>>), flat_dfs(t, key))))

----------------------------------------------------------------------------
(* The frame objects nest and unnest work on.  A name is bound to the     *)
(* caller's object or to one made during the call.  A method without      *)
(* inplace=True returns a new object; an assignment through a name        *)
(* changes the object the name is bound to.                                *)

Caller == "df"
New    == "new"

\* r.drop(columns=names, inplace=True): r itself, without the columns
drop_inplace(r, names) == r

\* r.drop(columns=names)
drop(r, names) == New

\* r.reset_index(drop=True)
reset_index(r) == New

\* what a call leaves: the caller's frame, and whether the object returned
\* is the caller's
Leaves(t, returned) == [data |-> t, shared |-> returned]

\* given is what nest(t, columns, key) returns or raises
nest_objects(t, columns, key, given) ==
    IF given.err # ""
    THEN Leaves(t, FALSE)
    ELSE IF Empty(t)
    THEN \* empty_result is assigned the key column and returned
         LET emptied == drop(Caller, columns)
         IN Leaves(IF emptied = Caller THEN given.frame ELSE t,
                   emptied = Caller)
    ELSE \* result is built by pd.DataFrame, assigned the key column, and
         \* result.reset_index(drop=True) is returned
         LET made   == New
             final  == reset_index(made)
         IN Leaves(IF final = Caller \/ made = Caller THEN given.frame ELSE t,
                   final = Caller)

\* given is what unnest(t, key) returns or raises
unnest_objects(t, key, given) ==
    IF given.err # ""
    THEN Leaves(t, FALSE)
    ELSE IF Empty(t)
    THEN LET dropped == drop(Caller, <<key>>)
         IN Leaves(IF dropped = Caller THEN given.frame ELSE t,
                   dropped = Caller)
    ELSE \* result is built by join, assigned its index, and returned
         LET df_reset == reset_index(Caller)
             outer    == drop(df_reset, <<key>>)
             joined   == New
         IN Leaves(IF joined = Caller THEN given.frame
                   ELSE IF outer = Caller
                   THEN DropColumns(ResetIndex(t), <<key>>)
                   ELSE IF df_reset = Caller THEN ResetIndex(t)
                   ELSE t,
                   joined = Caller)

----------------------------------------------------------------------------
(* The long-format frames and the arguments the calls are tried on *)

FlatColumns == <<"id", "text", "sub">>

ColumnValues(c) ==
    IF c = "id" THEN {Val(0), Val(1), NA} ELSE {Val(0), NA}

\* the cells of column "sub" in a frame of n rows: all different and
\* descending, all the same, or alternating
SubColumns(n) ==
    {[r \in 1..n |-> Val(n - r)], [r \in 1..n |-> Val(0)], [r \in 1..n |-> Val(r % 2)]}

FlatFrame(ids, texts, subs) ==
    [cols  |-> FlatColumns,
     index |-> RangeIndex(Len(ids)),
     rows  |-> [r \in DOMAIN ids |-> <<ids[r], texts[r], subs[r]>>]]

ColumnsArgs ==
    {<<"sub">>, <<"text", "sub">>, <<"sub", "text">>, <<"id">>,
     <<"id", "text", "sub">>, <<"sub", "zz">>, <<"zz", "sub", "yy">>}

KeyArgs == {"data", "id", "sub"}

----------------------------------------------------------------------------
(* The frames with a nested column and the arguments the calls are tried on *)

\* what a cell of the nested column can hold: None, some other object, or a
\* frame with the given columns, row count and first row label
KeyCells ==
    {[kind |-> "df", cols |-> <<"sub">>, n |-> n, first |-> 0] : n \in 0..MaxInner}
    \cup {[kind |-> "df", cols |-> <<"sub">>, n |-> 1, first |-> 2],
          [kind |-> "df", cols |-> <<"id">>, n |-> 1, first |-> 0],
          [kind |-> "df", cols |-> <<"text", "sub">>, n |-> 1, first |-> 0],
          [kind |-> "none", cols |-> <<>>, n |-> 0, first |-> 0],
          [kind |-> "other", cols |-> <<>>, n |-> 0, first |-> 0]}

\* the nested frame of shape s in outer row r; every cell of it is distinct
InnerFrame(s, r) ==
    [cols  |-> s.cols,
     index |-> [i \in 1..s.n |-> s.first + i - 1],
     rows  |-> [i \in 1..s.n |->
                  [j \in DOMAIN s.cols |-> Val(100 * r + 10 * i + j)]]]

KeyCell(k, r) ==
    IF k.kind = "none" THEN None
    ELSE IF k.kind = "other" THEN Other
    ELSE Frame(InnerFrame(k, r))

OuterColumnsArgs == {<<"id", "data">>, <<"data", "id">>, <<"data">>}

\* the labels 0..n-1, or labels that neither ascend nor differ throughout
OuterIndexes(n) == {RangeIndex(n), [i \in 1..n |-> 7 + (i % 2)]}

OuterRow(cols, id, k, r) ==
    [i \in DOMAIN cols |-> IF cols[i] = "data" THEN KeyCell(k, r) ELSE id]

NestedFrame(cols, ids, cells, index) ==
    [cols  |-> cols,
     index |-> index,
     rows  |-> [r \in DOMAIN ids |-> OuterRow(cols, ids[r], cells[r], r)]]

UnnestKeyArgs == {"data", "zz"}

BackColumnsArgs == {<<"sub">>, <<"text", "sub">>, <<"sub", "text">>, <<"id">>}

(* enforce_schema(data, schema, keep_extra_columns)                         *)
(*                                                                         *)
(* A typed frame is a record [cols, dtypes, index, rows]; its cells are    *)
(* records [kind, val, tz].  A time is a whole number of hours: val is the *)
(* wall clock reading and tz the zone it is read in, "" for none.          *)

I64(n)   == [kind |-> "int",   val |-> n, tz |-> ""]
F64(n)   == [kind |-> "float", val |-> n, tz |-> ""]
Str(n)   == [kind |-> "str",   val |-> n, tz |-> ""]   \* the digits of n as text
Junk     == [kind |-> "junk",  val |-> 0, tz |-> ""]   \* text, no number and no date
NaN      == [kind |-> "na",    val |-> 0, tz |-> ""]   \* NaN, None or NaT
DateStr(wall)       == [kind |-> "datestr", val |-> wall, tz |-> ""]
Timestamp(wall, tz) == [kind |-> "ts",      val |-> wall, tz |-> tz]

\* the zones of the model and ZoneInfo(z).utcoffset in hours; neither zone
\* has daylight saving time
Zones == {"UTC", "Asia/Tokyo"}
utcoffset(z) == IF z = "Asia/Tokyo" THEN 9 ELSE 0

\* the dtype strings of the model
Zoned(z) == "datetime64[ns, " \o z \o "]"
DatetimeDtypes ==
    {"datetime64[ns]", "datetime64[unknown]"} \cup {Zoned(z) : z \in Zones}

\* dtype.startswith("datetime64") and the two forms the code recognises
startswith_datetime64(dtype) == dtype \in DatetimeDtypes
IsPlain(dtype) == dtype = "datetime64[ns]"
IsZoned(dtype) == \E z \in Zones : dtype = Zoned(z)

\* dtype.split(",")[1][:-1].strip(), and the timezone of the loop: "" is None
timezone_str(dtype) == CHOOSE z \in Zones : dtype = Zoned(z)
timezone(dtype) == IF IsPlain(dtype) THEN "" ELSE timezone_str(dtype)

\* pd.Series(dtype=dtype) is built only for a dtype the engine knows
KnownDtype(dtype) == dtype # "datetime64[unknown]"

NoTyped == [cols |-> <<>>, dtypes |-> <<>>, index |-> <<>>, rows |-> <<>>]

Dtype(t, c) == t.dtypes[ColPos(t, c)]

\* t[name] = series, in place: replaces the column, or appends it
Assign(t, name, dtype, cells) ==
    IF name \in Range(t.cols)
    THEN [t EXCEPT !.dtypes[ColPos(t, name)] = dtype,
                   !.rows = [r \in DOMAIN t.rows |->
                               [t.rows[r] EXCEPT ![ColPos(t, name)] = cells[r]]]]
    ELSE [t EXCEPT !.cols = Append(t.cols, name),
                   !.dtypes = Append(t.dtypes, dtype),
                   !.rows = [r \in DOMAIN t.rows |-> Append(t.rows[r], cells[r])]]

\* t[names]: a new frame with the columns names, in the order of names
Keep(t, names) ==
    [cols   |-> names,
     dtypes |-> [i \in DOMAIN names |-> Dtype(t, names[i])],
     index  |-> t.index,
     rows   |-> [r \in DOMAIN t.rows |->
                   [i \in DOMAIN names |-> t.rows[r][ColPos(t, names[i])]]]]

\* t[col] = pd.Series(dtype=dtype): the series has no entry, so every row of
\* t gets a missing value, which an int64 column cannot hold
AddColumn(t, col, dtype) ==
    Assign(t, col,
           IF Len(t.rows) > 0 /\ dtype = "int64" THEN "float64" ELSE dtype,
           [r \in DOMAIN t.rows |-> NaN])

\* column.astype(dtype) for the number dtypes: which cells can be cast, and
\* to what
CanCast(c, dtype) ==
    IF dtype = "int64"
    THEN c.kind \in {"int", "float", "str"}
    ELSE c.kind \in {"int", "float", "str", "na"}

Cast(c, dtype) ==
    IF c.kind = "na" THEN NaN
    ELSE IF dtype = "int64" THEN I64(c.val) ELSE F64(c.val)

\* pd.to_datetime(column): times stay, text of a date is read as a time
\* without zone, missing stays missing, other text fails
CanParse(c) == c.kind \in {"ts", "datestr", "na"}
Parse(c) == IF c.kind = "datestr" THEN Timestamp(c.val, "") ELSE c
ParsedDtype(dtype) == IF dtype \in DatetimeDtypes THEN dtype ELSE "datetime64[ns]"

\* column.dt.tz_localize(tz): the wall clock reading stays and is now read in
\* tz
tz_localize(c, tz) == IF c.kind = "ts" THEN Timestamp(c.val, tz) ELSE c

\* column.dt.tz_convert(tz): the instant stays and is read in tz; tz = ""
\* (None) gives the reading in UTC and no zone
tz_convert(c, tz) ==
    IF c.kind = "ts"
    THEN Timestamp(c.val - utcoffset(c.tz) + utcoffset(tz), tz)
    ELSE c

\* the zone of the column never looked at
tz_unchecked(dtype) == TRUE

\* column.dt.tz is None
tz_is_None(dtype) == timezone(dtype) = ""

\* where the loop over the schema columns stands: the error raised, if any,
\* and the caller's frame as the assignments made so far leave it
Going(t)            == [err |-> "", names |-> <<>>, data |-> t]
Failed(e, names, t) == [err |-> e,  names |-> names, data |-> t]

\* the datetime branch of the loop body, for a column of the frame; fn is
\* the function whose loop it is, "enforce_schema" or "enforce_dtypes".
\* enforce_dtypes casts with astype when the dtype names no zone, which the
\* engine refuses for a column that has one
to_datetime_column(t, col, dtype, fn) ==
    LET cells   == Column(t, col)
        parsed  == [r \in DOMAIN cells |-> Parse(cells[r])]
        pdtype  == ParsedDtype(Dtype(t, col))
    IN IF ~IsPlain(dtype) /\ ~IsZoned(dtype)
       THEN Failed("Unknown datetime dtype", <<dtype>>, t)
       ELSE IF \E r \in DOMAIN cells : ~CanParse(cells[r])
       THEN Failed("Failed to convert", <<col, dtype, "DateParseError">>, t)
       ELSE IF fn = "enforce_dtypes" /\ timezone(dtype) = ""
       THEN IF tz_is_None(pdtype)
            THEN Going(Assign(t, col, dtype, parsed))
            ELSE Failed("TypeError", <<dtype>>, Assign(t, col, pdtype, parsed))
       ELSE IF tz_is_None(pdtype)
       THEN Going(Assign(t, col, dtype,
                [r \in DOMAIN cells |-> tz_localize(parsed[r], timezone(dtype))]))
       ELSE Going(Assign(t, col, dtype,
                [r \in DOMAIN cells |-> tz_convert(parsed[r], timezone(dtype))]))

\* the other branch: a cast
astype_column(t, col, dtype) ==
    LET cells == Column(t, col)
    IN IF \E r \in DOMAIN cells : ~CanCast(cells[r], dtype)
       THEN Failed("Failed to convert", <<col, dtype, "ValueError">>, t)
       ELSE Going(Assign(t, col, dtype,
                [r \in DOMAIN cells |-> Cast(cells[r], dtype)]))

\* one pass of the loop body for the schema column <<col, dtype>>
coerce(t, col, dtype, fn) ==
    IF col \notin Range(t.cols)
    THEN IF KnownDtype(dtype)
         THEN Going(AddColumn(t, col, dtype))
         ELSE Failed("TypeError", <<dtype>>, t)
    ELSE IF startswith_datetime64(dtype)
    THEN to_datetime_column(t, col, dtype, fn)
    ELSE astype_column(t, col, dtype)

\* the loop over the first k of the schema columns all
\* the loop run on a copy: when a column fails, the frame is left as given
RECURSIVE coerce_copy(_, _, _, _)
coerce_copy(t, all, k, fn) ==
    IF k = 0 THEN Going(t)
    ELSE LET prev == coerce_copy(t, all, k - 1, fn)
             next == coerce(prev.data, all[k][1], all[k][2], fn)
         IN IF prev.err # "" THEN prev
            ELSE IF next.err # "" THEN Failed(next.err, next.names, t)
            ELSE next

RECURSIVE coerce_all(_, _, _, _)
coerce_all(t, all, k, fn) ==
    IF k = 0 THEN Going(t)
    ELSE LET prev == coerce_all(t, all, k - 1, fn)
         IN IF prev.err # "" THEN prev
            ELSE coerce(prev.data, all[k][1], all[k][2], fn)

\* for an empty frame: data[col] = pd.Series(dtype=dtype) for the first k of
\* the schema columns, those the frame has included
RECURSIVE add_all(_, _, _)
add_all(t, all, k) ==
    IF k = 0 THEN Going(t)
    ELSE LET prev == add_all(t, all, k - 1)
         IN IF prev.err # "" THEN prev
            ELSE IF KnownDtype(all[k][2])
            THEN Going(AddColumn(prev.data, all[k][1], all[k][2]))
            ELSE Failed("TypeError", <<all[k][2]>>, prev.data)

\* A schema is a frame [cols, rows] whose rows are aligned with cols.
required_schema_columns == {"column_name", "dtype", "mandatory"}

\* schema.set_index("column_name").index: the names in the schema's row order
schema_index(sch) == Column(sch, "column_name")

\* schema.loc[mask, 'dtype'].to_dict() as <<name, dtype>> pairs in row order
dtype_dict(sch, mandatory) ==
    LET rows == SelectSeq(sch.rows,
                    LAMBDA row : row[ColPos(sch, "mandatory")] = mandatory)
    IN [i \in DOMAIN rows |->
          <<rows[i][ColPos(sch, "column_name")], rows[i][ColPos(sch, "dtype")]>>]

required(sch) == dtype_dict(sch, TRUE)
optional(sch) == dtype_dict(sch, FALSE)
all_cols(sch) == required(sch) \o optional(sch)

Names(pairs) == [i \in DOMAIN pairs |-> pairs[i][1]]

\* only the first of the missing names
first_missing_col(t, req) ==
    LET missing == SelectSeq(Names(req), LAMBDA col : col \notin Range(t.cols))
    IN SubSeq(missing, 1, IF missing = <<>> THEN 0 ELSE 1)

\* [col for col in required if col not in data.columns]
missing_cols(t, req) ==
    SelectSeq(Names(req), LAMBDA col : col \notin Range(t.cols))

\* data[[col for col in data.columns if col in all_cols]] unless extra
\* columns are kept
schema_columns_only(t, all, keep_extra_columns) ==
    IF keep_extra_columns THEN t
    ELSE Keep(t, SelectSeq(t.cols, LAMBDA col : col \in Range(Names(all))))

\* the columns left as the frame has them
data_order(t, sch) == t

\* data[schema.index.tolist() + (the columns not in the schema).tolist()]
schema_order(t, sch) ==
    Keep(t, schema_index(sch) \o
            SelectSeq(t.cols, LAMBDA col : col \notin Range(schema_index(sch))))

\* what a call gives: what it returned or raised, and the caller's frame as
\* the call leaves it
Gives(o, t) == [out |-> o, data |-> t]

\* d is [none, frame]: data is None, or the caller's frame
enforce_schema(d, sch, keep_extra_columns) ==
    IF ~(required_schema_columns \subseteq Range(sch.cols))
    THEN Gives(Raised("Schema is missing required columns", <<>>), d.frame)
    ELSE LET all == all_cols(sch)
         IN IF d.none
            THEN LET created == add_all(NoTyped, all, Len(all))
                 IN IF created.err # ""
                    THEN Gives(Raised(created.err, created.names), d.frame)
                    ELSE Gives(Returned(created.data), d.frame)
            ELSE LET added == IF Empty(d.frame)
                              THEN add_all(d.frame, all, Len(all))
                              ELSE Going(d.frame)
                     done  == coerce_all(added.data, all, Len(all), "enforce_schema")
                 IN IF added.err # ""
                    THEN Gives(Raised(added.err, added.names), added.data)
                    ELSE IF missing_cols(added.data, required(sch)) # <<>>
                    THEN Gives(Raised("Input DataFrame is missing required columns",
                                      missing_cols(added.data, required(sch))),
                               added.data)
                    ELSE IF done.err # ""
                    THEN Gives(Raised(done.err, done.names), done.data)
                    ELSE Gives(Returned(schema_order(
                                   schema_columns_only(done.data, all,
                                                       keep_extra_columns), sch)),
                               done.data)

\* enforce_dtypes(data, required, optional, keep_extra_columns), required
\* and optional being sequences of <<name, dtype>>
enforce_dtypes(d, req, opt, keep_extra_columns) ==
    LET all == req \o opt
    IN IF d.none
       THEN LET created == add_all(NoTyped, all, Len(all))
            IN IF created.err # ""
               THEN Gives(Raised(created.err, created.names), d.frame)
               ELSE Gives(Returned(created.data), d.frame)
       ELSE LET added == IF Empty(d.frame)
                         THEN add_all(d.frame, all, Len(all))
                         ELSE Going(d.frame)
                done  == coerce_all(added.data, all, Len(all), "enforce_dtypes")
            IN IF added.err # ""
               THEN Gives(Raised(added.err, added.names), added.data)
               ELSE IF missing_cols(added.data, req) # <<>>
               THEN Gives(Raised("Data frame is missing required columns",
                                 missing_cols(added.data, req)), added.data)
               ELSE IF done.err # ""
               THEN Gives(Raised(done.err, done.names), done.data)
               ELSE Gives(Returned(schema_columns_only(done.data, all,
                                                       keep_extra_columns)),
                          done.data)

\* the call enforce_schema(data, schema, keep_extra_columns=..) with the
\* keyword sort_columns given as well when o.sort_columns is not ""
call_enforce_schema(d, sch, o) ==
    IF o.sort_columns # ""
    THEN Gives(Raised("TypeError: unexpected keyword argument",
                      <<"sort_columns">>), d.frame)
    ELSE enforce_schema(d, sch, o.keep_extra_columns)

NoSchema == [cols |-> <<>>, rows |-> <<>>]
NoOpts   == [none |-> FALSE, keep_extra_columns |-> FALSE, sort_columns |-> ""]

----------------------------------------------------------------------------
(* The calls *)

InitNest ==
    /\ \E n \in 0..MaxRows :
          \E ids \in [1..n -> ColumnValues("id")],
             texts \in [1..n -> ColumnValues("text")],
             subs \in SubColumns(n) :
                df = FlatFrame(ids, texts, subs)
    /\ call = NoCall
    /\ out = NotCalled
    /\ back = NotCalled
    /\ pc = "start"
    /\ schema = NoSchema
    /\ opts = NoOpts
    /\ data = df
    /\ shared = FALSE
    /\ other = NoFrame

Nest(columns, key) ==
    /\ pc = "start"
    /\ call' = [op |-> "nest", columns |-> columns, key |-> key]
    /\ out' = nest(df, columns, key)
    /\ LET left == nest_objects(data, columns, key, out')
       IN data' = left.data /\ shared' = left.shared
    /\ pc' = "called"
    /\ UNCHANGED <<df, other, back, schema, opts>>

\* the caller unnests what nest returned, under the same key
UnnestBack ==
    /\ pc = "called"
    /\ call.op = "nest"
    /\ out.err = ""
    /\ back' = unnest(out.frame, call.key)
    /\ LET left == unnest_objects(out.frame, call.key, back')
       IN out' = [out EXCEPT !.frame = left.data] /\ shared' = left.shared
    /\ pc' = "back"
    /\ UNCHANGED <<df, other, call, schema, opts, data>>

NextNest ==
    \/ \E columns \in ColumnsArgs, key \in KeyArgs : Nest(columns, key)
    \/ UnnestBack

SpecNest == InitNest /\ [][NextNest]_vars

InitUnnest ==
    /\ \E cols \in OuterColumnsArgs, n \in 0..MaxOuter :
          \E ids \in [1..n -> ColumnValues("id")],
             cells \in [1..n -> KeyCells],
             index \in OuterIndexes(n) :
                df = NestedFrame(cols, ids, cells, index)
    /\ call = NoCall
    /\ out = NotCalled
    /\ back = NotCalled
    /\ pc = "start"
    /\ schema = NoSchema
    /\ opts = NoOpts
    /\ data = df
    /\ shared = FALSE
    /\ other = NoFrame

Unnest(key) ==
    /\ pc = "start"
    /\ call' = [op |-> "unnest", columns |-> <<>>, key |-> key]
    /\ out' = unnest(df, key)
    /\ LET left == unnest_objects(data, key, out')
       IN data' = left.data /\ shared' = left.shared
    /\ pc' = "called"
    /\ UNCHANGED <<df, other, back, schema, opts>>

\* the caller nests what unnest returned, under the same key
NestBack(columns) ==
    /\ pc = "called"
    /\ call.op = "unnest"
    /\ out.err = ""
    /\ call' = [call EXCEPT !.columns = columns]
    /\ back' = nest(out.frame, columns, call.key)
    /\ LET left == nest_objects(out.frame, columns, call.key, back')
       IN out' = [out EXCEPT !.frame = left.data] /\ shared' = left.shared
    /\ pc' = "back"
    /\ UNCHANGED <<df, other, schema, opts, data>>

NextUnnest ==
    \/ \E key \in UnnestKeyArgs : Unnest(key)
    \/ \E columns \in BackColumnsArgs : NestBack(columns)

SpecUnnest == InitUnnest /\ [][NextUnnest]_vars

----------------------------------------------------------------------------
(* The frames, schemas and options enforce_schema is tried on *)

DataColumnsArgs ==
    {<<>>, <<"note">>, <<"price">>, <<"date", "price">>, <<"price", "date">>,
     <<"extra", "date">>, <<"note", "price", "extra", "date">>}

\* column "price" of n rows, an object column: whole numbers, their digits as
\* text, text whose last entry is no number, or numbers after a missing value
PriceColumns(n) ==
    {[r \in 1..n |-> I64(r)],
     [r \in 1..n |-> Str(r)],
     [r \in 1..n |-> IF r = n THEN Junk ELSE Str(r)],
     [r \in 1..n |-> IF r = 1 THEN NaN ELSE I64(r)]}

\* column "date": times of its dtype's zone, or text; every entry there, or
\* the last one missing (times) or no date (text)
DateDtypes == {"object", "datetime64[ns]"} \cup {Zoned(z) : z \in Zones}

DateColumn(n, dtype, whole) ==
    [r \in 1..n |->
        IF dtype = "object"
        THEN IF r = n /\ ~whole THEN Junk ELSE DateStr(10 * r)
        ELSE IF r = n /\ ~whole THEN NaN ELSE Timestamp(10 * r, timezone(dtype))]

TypedFrame(cols, prices, dtype, dates) ==
    [cols   |-> cols,
     dtypes |-> [i \in DOMAIN cols |-> IF cols[i] = "date" THEN dtype ELSE "object"],
     index  |-> RangeIndex(Len(prices)),
     rows   |-> [r \in DOMAIN prices |->
                   [i \in DOMAIN cols |->
                      IF cols[i] = "price" THEN prices[r]
                      ELSE IF cols[i] = "date" THEN dates[r]
                      ELSE Str(r)]]]

\* a schema in the layout the code reads
SchemaColumnsArgs == {<<"price", "date">>, <<"date", "price">>}

SchemaFrame(names, mandatory, price, date) ==
    [cols |-> <<"column_name", "dtype", "mandatory">>,
     rows |-> [i \in DOMAIN names |->
                 <<names[i], IF names[i] = "price" THEN price ELSE date,
                   mandatory[names[i]]>>]]

\* schemas in the layouts of tests/test_enforce_schema.py
OtherSchemas ==
    {[cols |-> <<"column", "dtype", "mandatory">>,
      rows |-> <<<<"price", "int64", TRUE>>, <<"date", "datetime64[ns]", TRUE>>>>],
     [cols |-> <<"column", "dtype">>,
      rows |-> <<<<"price", "int64">>, <<"date", "datetime64[ns]">>>>],
     [cols |-> <<"column_name", "dtype">>,
      rows |-> <<<<"price", "int64">>, <<"date", "datetime64[ns]">>>>]}

\* data given or None, extra columns kept or not, sort_columns given or not
OptsArgs ==
    {[none |-> FALSE, keep_extra_columns |-> FALSE, sort_columns |-> ""],
     [none |-> FALSE, keep_extra_columns |-> TRUE,  sort_columns |-> ""],
     [none |-> TRUE,  keep_extra_columns |-> FALSE, sort_columns |-> ""],
     [none |-> FALSE, keep_extra_columns |-> FALSE, sort_columns |-> "True"],
     [none |-> FALSE, keep_extra_columns |-> FALSE, sort_columns |-> "False"]}

InitEnforce ==
    /\ \E cols \in DataColumnsArgs, n \in 0..MaxData :
          \E prices \in PriceColumns(n), dtype \in DateDtypes, whole \in BOOLEAN :
             df = TypedFrame(cols, prices, dtype, DateColumn(n, dtype, whole))
    /\ \/ \E names \in SchemaColumnsArgs,
             mandatory \in [{"price", "date"} -> BOOLEAN],
             price \in {"int64", "float64"},
             date \in DatetimeDtypes :
                schema = SchemaFrame(names, mandatory, price, date)
       \/ schema \in OtherSchemas
    /\ call = NoCall
    /\ out = NotCalled
    /\ back = NotCalled
    /\ pc = "start"
    /\ opts = NoOpts
    /\ data = df
    /\ shared = FALSE
    /\ other = NoFrame

EnforceSchema(o) ==
    /\ pc = "start"
    /\ call' = [op |-> "enforce_schema", columns |-> <<>>, key |-> ""]
    /\ opts' = o
    /\ LET given == call_enforce_schema([none |-> o.none, frame |-> data], schema, o)
       IN out' = given.out /\ data' = given.data
    /\ shared' = FALSE
    /\ pc' = "called"
    /\ UNCHANGED <<df, other, back, schema>>

\* enforce_dtypes called with the required and the optional columns the
\* schema lists
EnforceDtypes(o) ==
    /\ pc = "start"
    /\ required_schema_columns \subseteq Range(schema.cols)
    /\ o.sort_columns = ""
    /\ call' = [op |-> "enforce_dtypes", columns |-> <<>>, key |-> ""]
    /\ opts' = o
    /\ LET given == enforce_dtypes([none |-> o.none, frame |-> data],
                                   required(schema), optional(schema),
                                   o.keep_extra_columns)
       IN /\ out' = given.out /\ data' = given.data
          /\ shared' = (given.out.err = "" /\ ~o.none /\ o.keep_extra_columns)
    /\ pc' = "called"
    /\ UNCHANGED <<df, other, back, schema>>

NextEnforce ==
    \/ \E o \in OptsArgs : EnforceSchema(o)
    \/ \E o \in OptsArgs : EnforceDtypes(o)

SpecEnforce == InitEnforce /\ [][NextEnforce]_vars


----------------------------------------------------------------------------
(* What the properties below speak of *)

\* the columns of the input that the first call, a nest, does not nest
GroupingCols == SelectSeq(df.cols, LAMBDA c : c \notin Range(call.columns))

\* the grouping tuple of every input row, and of every output row of nest
InputKeys  == Select(df, GroupingCols).rows
OutputKeys == Select(out.frame, GroupingCols).rows

\* the input rows that carry grouping tuple k, and the n-th of them
Members(k) == {i \in DOMAIN df.rows : InputKeys[i] = k}
NthMember(k, n) ==
    CHOOSE i \in Members(k) : Cardinality({j \in Members(k) : j < i}) = n - 1

Ascending(keys) ==
    \A i, j \in DOMAIN keys : i < j => ~TupleLess(keys[j], keys[i])

StrictlyAscending(keys) ==
    \A i, j \in DOMAIN keys : i < j => TupleLess(keys[i], keys[j])

SameColumnsAndRows(a, b) == a.cols = b.cols /\ a.rows = b.rows

NestReturned == pc # "start" /\ call.op = "nest" /\ out.err = ""

----------------------------------------------------------------------------
(* C1: unnest after nest *)

UnnestedAfterNest ==
    /\ pc = "back"
    /\ call.op = "nest"
    /\ call.key \notin Range(df.cols)
    /\ GroupingCols # <<>>

\* the input has rows, they are arranged by ascending grouping tuple (missing
\* values last), and columns names the last columns of the input in their order
ArrangedForNest ==
    /\ Len(df.rows) > 0
    /\ df.cols = GroupingCols \o call.columns
    /\ Ascending(InputKeys)

\* C1 as stated: for every table, every key that is no column of it and every
\* choice of nested columns that leaves a grouping column, unnest(nest(t)) has
\* the columns and the rows of t, in the same order
C1_RoundTripEveryTable ==
    UnnestedAfterNest => back.err = "" /\ SameColumnsAndRows(back.frame, df)

\* C1 as amended: unnest(nest(t, cols, key), key) has the columns and rows of
\* t in the same order when t has at least one row, its rows are arranged by
\* ascending grouping tuple with missing values last, and cols names the last
\* columns of t in their order
C1_RoundTripArranged ==
    UnnestedAfterNest /\ ArrangedForNest
        => back.err = "" /\ SameColumnsAndRows(back.frame, df)

C1_Witness ==
    /\ UnnestedAfterNest /\ ArrangedForNest
    /\ Len(df.rows) >= 3
    /\ Len(out.frame.rows) = 2
    /\ \E i \in DOMAIN InputKeys : InputKeys[i][1] = NA
    /\ SameColumnsAndRows(back.frame, df)
    /\ back.frame.index # df.index

----------------------------------------------------------------------------
(* C2: nest after unnest *)

\* the cells of the nested column of the input, and the other columns
KeyColumn == Column(df, call.key)
OuterCols == SelectSeq(df.cols, LAMBDA c : c # call.key)
OuterKeys == Select(df, OuterCols).rows

\* unnest was called on a frame whose nested column holds only frames with
\* the column set `columns`, and nest was called on what unnest returned
NestedAfterUnnest ==
    /\ pc = "back"
    /\ call.op = "unnest"
    /\ call.key \in Range(df.cols)
    /\ \A r \in DOMAIN df.rows :
          /\ KeyColumn[r].kind = "df"
          /\ Range(KeyColumn[r].frame.cols) = Range(call.columns)

\* what the round trip needs besides: at least one outer row; at least one
\* outer column, and the nested column after them; outer rows with distinct grouping tuples in ascending order,
\* missing values last; every nested frame non-empty, labelled 0..n-1, its
\* columns in the order of `columns` and none named like an outer column
ArrangedForUnnest ==
    /\ Len(df.rows) > 0
    /\ OuterCols # <<>>
    /\ df.cols = Append(OuterCols, call.key)
    /\ StrictlyAscending(OuterKeys)
    /\ \A r \in DOMAIN df.rows :
          LET t == KeyColumn[r].frame
          IN /\ Len(t.rows) > 0
             /\ t.index = RangeIndex(Len(t.rows))
             /\ t.cols = call.columns
             /\ Range(t.cols) \cap Range(OuterCols) = {}

\* C2 as stated: nest(unnest(t, key), cols, key) has the outer rows of t in
\* the same order with the same nested frames, whenever the nested frames
\* all have the column set cols
C2_RoundTripEveryFrame ==
    NestedAfterUnnest => back.err = "" /\ SameColumnsAndRows(back.frame, df)

\* C2 as amended: the same, for a t with at least one row and at least one
\* other column, whose nested column is its last column, whose rows have distinct grouping tuples in ascending
\* order (missing values last), and whose nested frames each have at least one
\* row, row labels 0..n-1, the columns cols in the order of cols, and no
\* column named like an outer column
C2_RoundTripArranged ==
    NestedAfterUnnest /\ ArrangedForUnnest
        => back.err = "" /\ SameColumnsAndRows(back.frame, df)

C2_Witness ==
    /\ NestedAfterUnnest /\ ArrangedForUnnest
    /\ Len(df.rows) = 2
    /\ \E r \in DOMAIN df.rows : Len(KeyColumn[r].frame.rows) = 2
    /\ \E r \in DOMAIN df.rows : OuterKeys[r][1] = NA
    /\ df.index # RangeIndex(2)
    /\ SameColumnsAndRows(back.frame, df)

----------------------------------------------------------------------------
(* C3: the order of the rows nest returns *)

NestedSomeRows == NestReturned /\ Len(df.rows) > 0

\* C3 as stated: the i-th output row is the group whose first row comes i-th
\* among the first rows of all groups
C3_DiscoveryOrder ==
    NestedSomeRows => OutputKeys = Uniques(InputKeys)

\* C3 as amended: the output rows are the groups in ascending order of their
\* grouping tuple, missing values last; that is the order in which the groups
\* first appear only when they first appear in ascending order
C3_AscendingOrder ==
    NestedSomeRows =>
        /\ StrictlyAscending(OutputKeys)
        /\ Range(OutputKeys) = Range(InputKeys)
        /\ (OutputKeys = Uniques(InputKeys)) = Ascending(Uniques(InputKeys))

C3_Witness ==
    /\ NestedSomeRows
    /\ Len(OutputKeys) = 3
    /\ OutputKeys # Uniques(InputKeys)
    /\ \E i \in DOMAIN InputKeys : InputKeys[i][1] = NA

----------------------------------------------------------------------------
(* C4: the groups nest returns *)

NestCalled == pc # "start" /\ call.op = "nest"

\* the arguments meet what nest asks of them
ColumnsPresent == Range(call.columns) \subseteq Range(df.cols)
KeyFree        == call.key \notin Range(df.cols) \/ call.key \in Range(call.columns)

\* the nested frame in output row g
Inner(g) == Column(out.frame, call.key)[g].frame

RECURSIVE InnerRowCount(_)
InnerRowCount(g) == IF g = 0 THEN 0 ELSE InnerRowCount(g - 1) + Len(Inner(g).rows)

\* one output row per distinct grouping tuple, holding that group's rows
GroupsAsPromised ==
    /\ out.err = ""
    /\ Len(out.frame.rows) = Cardinality(Range(InputKeys))
    /\ Range(OutputKeys) = Range(InputKeys)
    /\ \A g \in DOMAIN out.frame.rows :
          LET k == OutputKeys[g]
          IN /\ Column(out.frame, call.key)[g].kind = "df"
             /\ Inner(g).cols = call.columns
             /\ Inner(g).index = RangeIndex(Cardinality(Members(k)))
             /\ Len(Inner(g).rows) = Cardinality(Members(k))
             /\ \A n \in DOMAIN Inner(g).rows :
                   Inner(g).rows[n] = Select(df, call.columns).rows[NthMember(k, n)]
    /\ InnerRowCount(Len(out.frame.rows)) = Len(df.rows)

\* C4 as stated: for every table with rows, nest returns one row per distinct
\* grouping tuple; its nested frame has the columns `columns`, the rows of the
\* group in their original order, labels 0..n-1, and the nested row counts sum
\* to the input row count
C4_GroupsOfEveryTable ==
    NestCalled /\ Len(df.rows) > 0 /\ ColumnsPresent /\ KeyFree
        => GroupsAsPromised

\* C4 as amended: the same, for every table with rows of which `columns`
\* leaves at least one column to group by
C4_GroupsWithGroupingColumn ==
    NestCalled /\ Len(df.rows) > 0 /\ ColumnsPresent /\ KeyFree
               /\ GroupingCols # <<>>
        => GroupsAsPromised

C4_Witness ==
    /\ NestedSomeRows
    /\ Len(df.rows) = 3
    /\ Len(out.frame.rows) = 2
    /\ InputKeys[1] = InputKeys[3]
    /\ InputKeys[1] # InputKeys[2]
    /\ Len(call.columns) = 2
    /\ GroupsAsPromised

----------------------------------------------------------------------------
(* C5: missing values in the grouping columns *)

HasMissing(k) == \E p \in DOMAIN k : k[p] = NA

\* C5: a missing value in a grouping column is a group key of its own: the
\* rows with the same grouping tuple, missing values included, make up exactly
\* one output row, no such row is dropped or put with another tuple, and nest
\* does not raise
C5_MissingIsAGroupKey ==
    NestCalled /\ Len(df.rows) > 0 /\ ColumnsPresent /\ KeyFree
               /\ GroupingCols # <<>>
        => /\ out.err = ""
           /\ \A i \in DOMAIN df.rows :
                 HasMissing(InputKeys[i]) =>
                     LET G == {g \in DOMAIN out.frame.rows :
                                  OutputKeys[g] = InputKeys[i]}
                     IN /\ Cardinality(G) = 1
                        /\ \A g \in G :
                              /\ Len(Inner(g).rows) = Cardinality(Members(InputKeys[i]))
                              /\ \E n \in DOMAIN Inner(g).rows :
                                    /\ NthMember(InputKeys[i], n) = i
                                    /\ Inner(g).rows[n] = Select(df, call.columns).rows[i]

C5_Witness ==
    /\ NestedSomeRows
    /\ Len(GroupingCols) = 2
    /\ Len(df.rows) = 3
    /\ InputKeys[1] = <<NA, Val(0)>>
    /\ InputKeys[2] = <<Val(1), Val(0)>>
    /\ InputKeys[3] = <<NA, Val(0)>>
    /\ OutputKeys = <<InputKeys[2], InputKeys[1]>>
    /\ Len(Inner(2).rows) = 2

----------------------------------------------------------------------------
(* C6: names in `columns` that are no columns of the frame *)

MissingNames == Range(call.columns) \ Range(df.cols)

\* C6: whenever some name in `columns` is no column of the frame, with or
\* without rows, nest raises the missing-columns error, which lists exactly
\* those names, and returns no frame
C6_MissingColumnsRaise ==
    NestCalled /\ MissingNames # {}
        => /\ out.err = "columns missing in df"
           /\ Range(out.names) = MissingNames
           /\ Len(out.names) = Cardinality(MissingNames)
           /\ out.frame = NoFrame

C6_Witness ==
    /\ NestCalled
    /\ Len(df.rows) = 0
    /\ Cardinality(MissingNames) = 2
    /\ call.key \in Range(df.cols)
    /\ out.err = "columns missing in df"

----------------------------------------------------------------------------
(* C7: a key that is already a column *)

KeyClash == call.key \in Range(df.cols) /\ call.key \notin Range(call.columns)

RaisedKeyExists == out.err = "key column already exists" /\ out.names = <<call.key>>

\* a key that names one of the nested columns is accepted, and the returned
\* column `key` holds the nested frames
NestedKeyAccepted ==
    call.key \in Range(df.cols) /\ call.key \in Range(call.columns)
        => /\ out.err # "key column already exists"
           /\ out.err = "" =>
                 /\ out.frame.cols # <<>>
                 /\ out.frame.cols[Len(out.frame.cols)] = call.key
                 /\ \A g \in DOMAIN out.frame.rows :
                       Column(out.frame, call.key)[g].kind = "df"

\* C7 as stated: nest raises the error naming `key` when `key` is a column of
\* the frame and not one of the nested columns; a key among the nested
\* columns does not raise it, and the output column `key` holds the frames
C7_KeyClashRaises ==
    NestCalled => (KeyClash => RaisedKeyExists) /\ NestedKeyAccepted

\* C7 as amended: the same, the error naming `key` being raised when moreover
\* every name in `columns` is a column of the frame (the missing-columns
\* error comes first)
C7_KeyClashRaisesAfterColumns ==
    NestCalled => (KeyClash /\ ColumnsPresent => RaisedKeyExists) /\ NestedKeyAccepted

C7_Witness ==
    /\ NestCalled
    /\ KeyClash /\ ColumnsPresent
    /\ Len(df.rows) > 0
    /\ RaisedKeyExists

----------------------------------------------------------------------------
(* C8: nest of a frame without rows *)

\* C8: for a frame with no rows nest returns a frame with no rows whose
\* columns are the columns not in `columns`, in their order, then `key`
C8_EmptyFrame ==
    NestCalled /\ Len(df.rows) = 0 /\ ColumnsPresent /\ KeyFree
        => /\ out.err = ""
           /\ out.frame.rows = <<>>
           /\ out.frame.cols = Append(GroupingCols, call.key)

C8_Witness ==
    /\ NestCalled
    /\ Len(df.rows) = 0
    /\ out.err = ""
    /\ call.key \in Range(call.columns)
    /\ Len(out.frame.cols) = 3

----------------------------------------------------------------------------
(* C9: the rows unnest returns *)

UnnestCalled == pc # "start" /\ call.op = "unnest"

\* unnest is given a frame with rows whose column `key` holds frames and None
Unnestable ==
    /\ UnnestCalled
    /\ Len(df.rows) > 0
    /\ call.key \in Range(df.cols)
    /\ \A r \in DOMAIN df.rows : KeyColumn[r].kind \in {"df", "none"}

\* <<r, i>> for every outer row r, in order, and every row i of its nested
\* frame, in order; None and a frame without rows give no pair
RECURSIVE ExpandedUpTo(_)
ExpandedUpTo(r) ==
    IF r = 0 THEN <<>>
    ELSE ExpandedUpTo(r - 1) \o
         [i \in 1..Len(KeyColumn[r].frame.rows) |-> <<r, i>>]

Expanded == ExpandedUpTo(Len(df.rows))

\* C9: unnest of a frame with rows returns, in outer-row order and then
\* nested-row order, one row per nested row, carrying the outer row's other
\* cells unchanged and the nested row's cells; an outer row holding None or a
\* frame without rows gives no row; with None everywhere the result has no
\* rows and just the outer columns without `key`
C9_UnnestedRows ==
    Unnestable
        => /\ out.err = ""
           /\ Len(out.frame.rows) = Len(Expanded)
           /\ SubSeq(out.frame.cols, 1, Len(OuterCols)) = OuterCols
           /\ \A n \in DOMAIN out.frame.rows :
                 LET r == Expanded[n][1]
                     i == Expanded[n][2]
                     t == KeyColumn[r].frame
                 IN /\ SubSeq(out.frame.rows[n], 1, Len(OuterCols)) = OuterKeys[r]
                    /\ \A j \in DOMAIN t.cols :
                          t.cols[j] \notin Range(OuterCols)
                              => Column(out.frame, t.cols[j])[n] = t.rows[i][j]
           /\ (\A r \in DOMAIN df.rows : KeyColumn[r].kind = "none")
                 => out.frame.rows = <<>> /\ out.frame.cols = OuterCols

C9_Witness ==
    /\ Unnestable
    /\ Len(df.rows) = 2
    /\ KeyColumn[1].kind = "none"
    /\ KeyColumn[2].kind = "df"
    /\ Len(KeyColumn[2].frame.rows) = 2
    /\ out.err = ""
    /\ Len(out.frame.rows) = 2
    /\ out.frame.cols = <<"id", "sub">>

----------------------------------------------------------------------------
(* C10: the row labels unnest returns *)

----------------------------------------------------------------------------
(* C11: nested columns named like outer columns *)

\* the names that are both an outer column other than `key` and a column of
\* some nested frame
Clashing ==
    {c \in Range(OuterCols) :
        \E r \in DOMAIN df.rows :
            KeyColumn[r].kind = "df" /\ c \in Range(KeyColumn[r].frame.cols)}

\* the cell of nested row i of outer row r under column c, missing where
\* that nested frame has no such column
InnerCell(r, i, c) ==
    LET t == KeyColumn[r].frame
    IN IF c \in Range(t.cols) THEN t.rows[i][ColPos(t, c)] ELSE NA

\* C11: when a nested column is named like an outer column other than `key`,
\* the output has the outer column under its name with the outer values, and
\* the nested column as <name>_nested with the nested values; no outer column
\* is overwritten
C11_ClashSuffixed ==
    Unnestable /\ Clashing # {}
        => /\ out.err = ""
           /\ \A c \in Clashing :
                 /\ Cardinality({j \in DOMAIN out.frame.cols :
                                    out.frame.cols[j] = c}) = 1
                 /\ Cardinality({j \in DOMAIN out.frame.cols :
                                    out.frame.cols[j] = c \o "_nested"}) = 1
                 /\ \A n \in DOMAIN out.frame.rows :
                       LET r == Expanded[n][1]
                           i == Expanded[n][2]
                       IN /\ Column(out.frame, c)[n] = Column(df, c)[r]
                          /\ Column(out.frame, c \o "_nested")[n] = InnerCell(r, i, c)

C11_Witness ==
    /\ Unnestable
    /\ Clashing = {"id"}
    /\ Len(df.rows) = 2
    /\ KeyColumn[1].frame.cols = <<"id">>
    /\ KeyColumn[2].frame.cols = <<"text", "sub">>
    /\ out.err = ""
    /\ out.frame.cols = <<"id", "id_nested", "text", "sub">>
    /\ Column(out.frame, "id") = <<Val(1), NA>>
    /\ Column(out.frame, "id_nested") = <<Val(111), NA>>

----------------------------------------------------------------------------
(* C12: unnest without the key column *)

KeyMissing == UnnestCalled /\ call.key \notin Range(df.cols)

\* C12: whenever `key` is no column of the frame, with rows or without,
\* unnest raises the error "Key column '<key>' not found in `df`."
C12_MissingKeyRaises ==
    KeyMissing => out = Raised("Key column not found in df", <<call.key>>)

----------------------------------------------------------------------------
(* C13: cells of the key column that are no frames *)

\* the key column is there and holds at least one cell that is neither a
\* frame nor None
HoldsOther ==
    /\ UnnestCalled
    /\ call.key \in Range(df.cols)
    /\ \E r \in DOMAIN df.rows : KeyColumn[r].kind \notin {"df", "none"}

\* C13: whenever one cell of the key column is neither a frame nor None,
\* whatever the other cells hold, unnest raises the error on the column's
\* content that names `key`, and returns no frame
C13_OtherCellRaises ==
    HoldsOther
        => /\ out.err = "All items in column must be DataFrames"
           /\ out.names = <<call.key>>
           /\ out.frame = NoFrame

C13_Witness ==
    /\ HoldsOther
    /\ Len(df.rows) = 2
    /\ KeyColumn[1].kind = "df"
    /\ Len(KeyColumn[1].frame.rows) = 2
    /\ KeyColumn[2].kind = "other"
    /\ out = Raised("All items in column must be DataFrames", <<"data">>)

----------------------------------------------------------------------------
(* What the properties of enforce_schema speak of *)

\* enforce_schema was called without the keyword sort_columns
Enforced == pc # "start" /\ call.op = "enforce_schema" /\ opts.sort_columns = ""

\* the schema has the columns the code reads, and dtypes the engine knows
SchemaAccepted == required_schema_columns \subseteq Range(schema.cols)
DtypesKnown    == \A row \in Range(schema.rows) : KnownDtype(row[ColPos(schema, "dtype")])

\* the names the schema lists, in its row order, and the mandatory ones
SchemaNames    == schema_index(schema)
MandatoryNames == Names(required(schema))

----------------------------------------------------------------------------
(* C14: enforce_schema(None, schema) *)

\* C14: for every schema, enforce_schema(None, schema) returns a frame without
\* rows whose columns are the schema's columns in the schema's row order,
\* also when the schema lists an optional column before a mandatory one
C14_NoneGivesSchemaOrder ==
    Enforced /\ opts.none /\ SchemaAccepted /\ DtypesKnown
        => /\ out.err = ""
           /\ out.frame.rows = <<>>
           /\ out.frame.cols = SchemaNames

----------------------------------------------------------------------------
(* C15: the error for missing mandatory columns *)

\* enforce_schema or enforce_dtypes was called, and the schema is one whose
\* mandatory and optional columns can be read
EnforcedEither ==
    /\ pc # "start"
    /\ call.op \in {"enforce_schema", "enforce_dtypes"}
    /\ opts.sort_columns = ""
    /\ SchemaAccepted

MissingError ==
    IF call.op = "enforce_schema"
    THEN "Input DataFrame is missing required columns"
    ELSE "Data frame is missing required columns"

\* the mandatory columns the given frame lacks, in their order
Lacking == SelectSeq(MandatoryNames, LAMBDA col : col \notin Range(df.cols))

\* the error is raised exactly under `when`, and then lists the lacking names
MissingRaisedWhen(when) ==
    /\ (out.err = MissingError) = when
    /\ out.err = MissingError => out.names = Lacking

\* under `when` the error is not raised, and what the call returns, if it
\* returns, has every schema column
AddedWhen(when) ==
    when => /\ out.err # MissingError
            /\ out.err = "" => Range(SchemaNames) \subseteq Range(out.frame.cols)

C15_WitnessAdded ==
    /\ EnforcedEither
    /\ df.cols = <<"extra", "date">>
    /\ Len(df.rows) = 0
    /\ MandatoryNames = <<"price", "date">>
    /\ out.err = ""
    /\ out.frame.cols = <<"price", "date">>

----------------------------------------------------------------------------
(* C16: the columns enforce_schema returns for given data *)

\* enforce_schema was given a frame and returned
EnforcedData == Enforced /\ ~opts.none /\ out.err = ""

\* the columns of the given frame that the schema does not list, in order
ExtraCols == SelectSeq(df.cols, LAMBDA col : col \notin Range(SchemaNames))

\* C16: for given data the result has, when extra columns are not kept,
\* exactly the schema's columns, and when they are kept, the schema's columns
\* followed by the other columns of the data in their original order
C16_ResultColumns ==
    EnforcedData
        => out.frame.cols = IF opts.keep_extra_columns
                            THEN SchemaNames \o ExtraCols
                            ELSE SchemaNames

C16_Witness ==
    /\ EnforcedData
    /\ opts.keep_extra_columns
    /\ df.cols = <<"note", "price", "extra", "date">>
    /\ Len(df.rows) = 2
    /\ SchemaNames = <<"date", "price">>
    /\ out.frame.cols = <<"date", "price", "note", "extra">>

C16_WitnessDropped ==
    /\ EnforcedData
    /\ ~opts.keep_extra_columns
    /\ df.cols = <<"note", "price", "extra", "date">>
    /\ Len(df.rows) = 2
    /\ out.frame.cols = <<"date", "price">>

----------------------------------------------------------------------------
(* C17: the option sort_columns *)

\* enforce_schema was called with the keyword sort_columns, on a frame whose
\* columns are the schema's columns in some order
SortGiven ==
    /\ pc # "start"
    /\ call.op = "enforce_schema"
    /\ opts.sort_columns # ""
    /\ SchemaAccepted
    /\ Len(df.cols) = Len(SchemaNames)
    /\ Range(df.cols) = Range(SchemaNames)

\* C17: enforce_schema accepts the option sort_columns; with sort_columns=True
\* the result's columns are in schema order, with sort_columns=False they are
\* in the order of the given frame
C17_SortColumnsAccepted ==
    SortGiven
        => /\ out.err # "TypeError: unexpected keyword argument"
           /\ out.err = ""
                 => out.frame.cols = IF opts.sort_columns = "True"
                                     THEN SchemaNames
                                     ELSE df.cols

----------------------------------------------------------------------------
(* C19: a schema without the column `mandatory` *)

\* enforce_schema was given a frame with rows and columns and a schema with
\* just the columns `column` and `dtype`
PlainSchemaGiven ==
    /\ Enforced
    /\ ~opts.none
    /\ ~Empty(df)
    /\ schema.cols = <<"column", "dtype">>

\* C19: a schema with the columns `column` and `dtype` and no `mandatory` is
\* accepted and every column of it is mandatory: data with rows that lacks a
\* schema column raises the missing-columns error, and data with every schema
\* column is accepted
C19_SchemaWithoutMandatory ==
    PlainSchemaGiven
        => IF Range(Column(schema, "column")) \subseteq Range(df.cols)
           THEN out.err \notin {"Schema is missing required columns",
                                "Input DataFrame is missing required columns"}
           ELSE out.err = "Input DataFrame is missing required columns"

----------------------------------------------------------------------------
(* C18: the caller's frame when enforce_schema raises *)

\* enforce_schema was given a frame and raised one of its errors on the data
ConversionErrors == {"Failed to convert", "Unknown datetime dtype"}
DataErrors == {"Input DataFrame is missing required columns"} \cup ConversionErrors

RaisedOnData == Enforced /\ ~opts.none /\ out.err \in DataErrors

\* C18 as stated: whenever enforce_schema raises for a missing mandatory
\* column, a failed cast, a failed date parse or an unrecognized datetime
\* dtype, the caller's frame is as it was before the call
C18_RaisedLeavesData ==
    RaisedOnData => data = df

\* the schema columns in the order the loop takes them, and the place of the
\* column the error is about
LoopCols == all_cols(schema)
FailedAt ==
    IF out.err = "Unknown datetime dtype"
    THEN CHOOSE k \in DOMAIN LoopCols : LoopCols[k][2] = out.names[1]
    ELSE CHOOSE k \in DOMAIN LoopCols : LoopCols[k][1] = out.names[1]

\* a cell as a column of the dtype holds it
Fits(c, dtype) ==
    \/ c.kind = "na"
    \/ dtype = "int64" /\ c.kind = "int"
    \/ dtype = "float64" /\ c.kind = "float"
    \/ dtype \in DatetimeDtypes /\ c.kind = "ts" /\ c.tz = timezone(dtype)

\* C18 as amended: when enforce_schema raises the missing-columns error, the
\* caller's frame is as it was before the call.  When it raises for a failed
\* cast, a failed date parse or an unrecognized datetime dtype, the frame has
\* its rows, the columns outside the schema, the failing column and the schema
\* columns after it (mandatory columns first, then optional ones) hold what
\* they held, and the schema columns before it are already converted or added
\* in the caller's frame; absent later columns are added only to an empty frame
C18_RaisedLeavesLaterColumns ==
    RaisedOnData
        => /\ out.err \notin ConversionErrors => data = df
           /\ out.err \in ConversionErrors
                 => /\ data.index = df.index
                    /\ \A c \in Range(df.cols) :
                          c \notin Range(Names(LoopCols))
                              => Column(data, c) = Column(df, c)
                    /\ \A j \in DOMAIN LoopCols :
                          LET c == LoopCols[j][1]
                          IN IF j < FailedAt
                             THEN /\ c \in Range(data.cols)
                                  /\ \A r \in DOMAIN data.rows :
                                        Fits(Column(data, c)[r], LoopCols[j][2])
                             ELSE IF c \in Range(df.cols)
                             THEN Column(data, c) = Column(df, c)
                             ELSE (c \in Range(data.cols)) = Empty(df)

C18_Witness ==
    /\ RaisedOnData
    /\ out = Raised("Failed to convert", <<"date", "datetime64[ns]", "DateParseError">>)
    /\ df.cols = <<"date", "price">>
    /\ Column(df, "price") = <<Str(1), Str(2)>>
    /\ Column(data, "price") = <<I64(1), I64(2)>>
    /\ Column(data, "date") = Column(df, "date")

----------------------------------------------------------------------------
(* C20: columns of a zoned datetime dtype *)

\* the dtype the schema declares for column "date"
DateDtype ==
    LET row == CHOOSE row \in Range(schema.rows) :
                   row[ColPos(schema, "column_name")] = "date"
    IN row[ColPos(schema, "dtype")]

\* enforce_schema or enforce_dtypes was given a frame with column "date",
\* the schema declares a zoned datetime dtype for it, and the call returned
ZonedEnforced ==
    /\ EnforcedEither
    /\ ~opts.none
    /\ out.err = ""
    /\ "date" \in Range(df.cols)
    /\ IsZoned(DateDtype)

\* the column as given has a zone
GivenZoned == IsZoned(Dtype(df, "date"))

\* the instant of a time: its wall clock reading less its zone's offset
Instant(c) == c.val - utcoffset(c.tz)

\* C20: under a zoned datetime dtype, every value of a column without zone
\* keeps its wall clock reading and gets the target zone; every value of a
\* column with a zone keeps its instant and is read in the target zone, and
\* is never given the target zone with its wall clock reading kept
C20_LocalizeOrConvert ==
    ZonedEnforced
        => \A r \in DOMAIN df.rows :
              LET given == Column(df, "date")[r]
                  got   == Column(out.frame, "date")[r]
                  zone  == timezone_str(DateDtype)
              IN IF given.kind = "na" THEN got = NaN
                 ELSE /\ got.kind = "ts"
                      /\ got.tz = zone
                      /\ IF GivenZoned
                         THEN /\ Instant(got) = Instant(given)
                              /\ utcoffset(given.tz) # utcoffset(zone)
                                    => got.val # given.val
                         ELSE got.val = given.val

C20_Witness ==
    /\ ZonedEnforced
    /\ Dtype(df, "date") = "datetime64[ns, UTC]"
    /\ DateDtype = "datetime64[ns, Asia/Tokyo]"
    /\ Column(df, "date") = <<Timestamp(10, "UTC"), Timestamp(20, "UTC")>>
    /\ Column(out.frame, "date")
          = <<Timestamp(19, "Asia/Tokyo"), Timestamp(29, "Asia/Tokyo")>>

C20_WitnessLocalized ==
    /\ ZonedEnforced
    /\ Dtype(df, "date") = "object"
    /\ DateDtype = "datetime64[ns, Asia/Tokyo]"
    /\ Column(df, "date") = <<DateStr(10), DateStr(20)>>
    /\ Column(out.frame, "date")
          = <<Timestamp(10, "Asia/Tokyo"), Timestamp(20, "Asia/Tokyo")>>

----------------------------------------------------------------------------
(* C25: the rows nest returns are sorted *)

\* grouping tuple a comes before b: where they first differ, b is missing or
\* both are values and a's is the smaller
ComesBefore(a, b) ==
    \E p \in DOMAIN a :
        /\ \A q \in 1..(p - 1) : a[q] = b[q]
        /\ a[p] # b[p]
        /\ a[p].kind # "na"
        /\ b[p].kind = "na" \/ a[p].val < b[p].val

\* C25: for every frame with rows, the rows nest returns are in ascending
\* order of the grouping tuple, a missing value after every value, whatever
\* the order in which the groups first appear in the input
C25_SortedMissingLast ==
    NestedSomeRows
        => /\ \A i, j \in DOMAIN OutputKeys :
                 i < j => ComesBefore(OutputKeys[i], OutputKeys[j])
           /\ Range(OutputKeys) = Range(InputKeys)

C25_Witness ==
    /\ NestedSomeRows
    /\ call.columns = <<"text", "sub">>
    /\ Column(df, "id") = <<NA, Val(1), Val(0)>>
    /\ Column(out.frame, "id") = <<Val(0), Val(1), NA>>

----------------------------------------------------------------------------
(* C24: nest and unnest leave the caller's frame alone *)

\* C24: no call of nest or unnest, whether it returns or raises, changes the
\* frame object it was passed (columns, rows, values and index are as before
\* the call), and the object it returns is never the object it was passed.
C24_CallerFrameKept ==
    [][/\ data' = data
       /\ pc = "called" => out' = out
       /\ ~shared']_vars

C24_Witness ==
    /\ pc = "back"
    /\ call.op = "unnest"
    /\ back.err = ""
    /\ df.index # RangeIndex(Len(df.rows))
    /\ Len(out.frame.rows) > 1
    /\ data = df
    /\ ~shared

----------------------------------------------------------------------------
(* df_to_consistent_str(df, index) (consistent_df/string.py)              *)
(*                                                                         *)
(* The cells of these frames are integers, floats with a whole value      *)
(* (0.0 and -0.0 among them) and missing values.                           *)

IntCell(n)   == [kind |-> "int",   val |-> n, neg |-> FALSE]
FloatCell(n) == [kind |-> "float", val |-> n, neg |-> FALSE]
NegZero      == [kind |-> "float", val |-> 0, neg |-> TRUE]
NullCell     == [kind |-> "na",    val |-> 0, neg |-> FALSE]

\* the column labels used, in alphabetical order
Alphabet == <<"A", "B">>

\* sorted(df.columns)
sorted(cols) == SelectSeq(Alphabet, LAMBDA c : c \in Range(cols))

\* a < b in sort_values: by value, -0.0 being equal to 0.0; a missing value
\* comes after every value (na_position="last")
ValueLess(a, b) ==
    /\ a.kind # "na"
    /\ b.kind = "na" \/ a.val < b.val

ValueTied(a, b) == ~ValueLess(a, b) /\ ~ValueLess(b, a)

\* row i sorts before row j by the columns by, the first ones first
RowLess(t, by, i, j) ==
    \E p \in DOMAIN by :
        /\ \A q \in 1..(p - 1) :
              ValueTied(Column(t, by[q])[i], Column(t, by[q])[j])
        /\ ValueLess(Column(t, by[p])[i], Column(t, by[p])[j])

\* the place of row i after sorting: rows that tie keep their order
Place(t, by, i) ==
    1 + Cardinality({j \in DOMAIN t.rows :
                        \/ RowLess(t, by, j, i)
                        \/ ~RowLess(t, by, i, j) /\ j < i})

\* t.sort_values(by=by, na_position="last"): rows keep their labels
sort_values(t, by) ==
    TakeRows(t, [k \in DOMAIN t.rows |->
                   CHOOSE i \in DOMAIN t.rows : Place(t, by, i) = k])

\* how to_csv writes a cell
csv_cell(c) ==
    IF c.kind = "na" THEN ""
    ELSE IF c.kind = "int" THEN ToString(c.val)
    ELSE (IF c.neg THEN "-" ELSE "") \o ToString(c.val) \o ".0"

\* the fields of a line, separated by commas
RECURSIVE csv_line(_)
csv_line(fields) ==
    IF fields = <<>> THEN ""
    ELSE IF Len(fields) = 1 THEN fields[1]
    ELSE fields[1] \o "," \o csv_line(Tail(fields))

\* the lines, each but the last followed by a line feed
RECURSIVE csv_lines(_)
csv_lines(lines) ==
    IF lines = <<>> THEN ""
    ELSE IF Len(lines) = 1 THEN lines[1]
    ELSE lines[1] \o "\n" \o csv_lines(Tail(lines))

\* t.to_csv(index=index, header=True, sep=",").strip(): the header, then
\* one line per row, the row label first if index is set
to_csv(t, index) ==
    LET header == (IF index THEN <<"">> ELSE <<>>) \o t.cols
        line(r) == (IF index THEN <<ToString(t.index[r])>> ELSE <<>>)
                   \o [i \in DOMAIN t.cols |-> csv_cell(t.rows[r][i])]
    IN csv_lines(<<csv_line(header)>>
                 \o [r \in DOMAIN t.rows |-> csv_line(line(r))])

df_to_consistent_str(t, index) ==
    LET sorted_df == Select(t, sorted(t.cols))
    IN to_csv(sort_values(sorted_df, sorted_df.cols), index)

Text(s) == [err |-> "", text |-> s]
NoText  == [err |-> "not called", text |-> ""]

----------------------------------------------------------------------------
(* The frames df_to_consistent_str is tried on, and their reshuffles *)

StrColumns == <<"B", "A">>

\* column "A" holds integers and pd.NA, column "B" floats
StrValues(c) ==
    IF c = "A" THEN {IntCell(1), NullCell}
    ELSE {FloatCell(0), NegZero, NullCell}

StrFrame(bs, as) ==
    [cols  |-> StrColumns,
     index |-> RangeIndex(Len(bs)),
     rows  |-> [r \in DOMAIN bs |-> <<bs[r], as[r]>>]]

\* the orders n rows can be put in
RowOrders(n) ==
    {p \in [1..n -> 1..n] : \A i, j \in 1..n : p[i] = p[j] => i = j}

\* t.sample(frac=1)[cols]: the rows in the order p, each with its label, and
\* the columns in the order cols
Reshuffled(t, p, cols) == Select(TakeRows(t, p), cols)

InitStr ==
    /\ \E n \in 0..MaxLines :
          \E bs \in [1..n -> StrValues("B")],
             as \in [1..n -> StrValues("A")],
             p \in RowOrders(n),
             cols \in {<<"A", "B">>, <<"B", "A">>} :
                /\ df = StrFrame(bs, as)
                /\ other = Reshuffled(StrFrame(bs, as), p, cols)
    /\ call = NoCall
    /\ out = NoText
    /\ back = NoText
    /\ pc = "start"
    /\ schema = NoSchema
    /\ opts = NoOpts
    /\ data = df
    /\ shared = FALSE

\* df_to_consistent_str(df, index): reindex and sort_values return new
\* frames, and the value returned is a string
DfToConsistentStr(index) ==
    /\ pc = "start"
    /\ call' = [op |-> "df_to_consistent_str", index |-> index]
    /\ out' = Text(df_to_consistent_str(df, index))
    /\ pc' = "called"
    /\ UNCHANGED <<df, other, back, schema, opts, data, shared>>

\* the same call on the reshuffled frame
DfToConsistentStrOther ==
    /\ pc = "called"
    /\ call.op = "df_to_consistent_str"
    /\ back' = Text(df_to_consistent_str(other, call.index))
    /\ pc' = "back"
    /\ UNCHANGED <<df, other, call, out, schema, opts, data, shared>>

NextStr ==
    \/ \E index \in BOOLEAN : DfToConsistentStr(index)
    \/ DfToConsistentStrOther

SpecStr == InitStr /\ [][NextStr]_vars

----------------------------------------------------------------------------
(* C21, C22: the string of a reshuffled frame *)

Restrung == pc = "back" /\ call.op = "df_to_consistent_str"

\* C21: for every frame and every reordering of its rows and its columns,
\* df_to_consistent_str without the index gives the frame and the
\* reshuffled frame the same string.
C21_ReshuffledSameStr ==
    Restrung /\ ~call.index => out.text = back.text

\* C22: for every frame and every reordering of its rows, each keeping its
\* label, and of its columns, df_to_consistent_str with index=True gives the
\* frame and the reshuffled frame the same string.
C22_ReshuffledSameStrWithIndex ==
    Restrung /\ call.index => out.text = back.text

----------------------------------------------------------------------------
(* assert_frame_equal(left, right, ignore_index, ignore_columns,          *)
(* ignore_row_order) (consistent_df/testing.py)                            *)

Passed         == [err |-> "", text |-> ""]
AssertionError == [err |-> "AssertionError", text |-> ""]

\* two cells that pd.testing.assert_frame_equal takes as equal: of the same
\* type and value, a missing value being equal to a missing value
SameCell(a, b) == a.kind = b.kind /\ a.val = b.val

\* pd.testing.assert_frame_equal(left, right) passes: same shape, same
\* columns in the same order, same row labels, same cells
frames_equal(left, right) ==
    /\ left.cols = right.cols
    /\ Len(left.rows) = Len(right.rows)
    /\ left.index = right.index
    /\ \A r \in DOMAIN left.rows : \A c \in DOMAIN left.cols :
          SameCell(left.rows[r][c], right.rows[r][c])

\* left.columns.intersection(right.columns).tolist()
common_columns(left, right) ==
    SelectSeq(left.cols, LAMBDA c : c \in Range(right.cols))

\* t.sort_values(by=by), the labels left as they are
sorted_keep_index(t, by) == sort_values(t, by)

\* t.sort_values(by=by).reset_index(drop=True)
sorted_reset(t, by) == ResetIndex(sort_values(t, by))

assert_frame_equal(left, right, ignore_index, ignore_columns, ignore_row_order) ==
    LET left1  == IF ignore_index THEN ResetIndex(left) ELSE left
        right1 == IF ignore_index THEN ResetIndex(right) ELSE right
        left2  == IF ignore_columns # <<>>
                  THEN DropColumns(left1, ignore_columns) ELSE left1
        right2 == IF ignore_columns # <<>>
                  THEN DropColumns(right1, ignore_columns) ELSE right1
        common == common_columns(left2, right2)
        left3  == IF ignore_row_order THEN sorted_reset(left2, common) ELSE left2
        right3 == IF ignore_row_order THEN sorted_reset(right2, common) ELSE right2
    IN IF frames_equal(left3, right3) THEN Passed ELSE AssertionError

----------------------------------------------------------------------------
(* The pairs of frames assert_frame_equal is tried on *)

\* column "A" holds integers, column "B" floats and NaN
PairValues(c) ==
    IF c = "A" THEN {IntCell(1), IntCell(2)} ELSE {FloatCell(0), NullCell}

PairColumnsArgs == {<<"A", "B">>, <<"B", "A">>, <<"A">>}

\* the row labels of a frame of n rows: 0 .. n-1, or n .. 1
PairIndexes(n) == {RangeIndex(n), [i \in 1..n |-> n + 1 - i]}

PairFrame(cols, index, as, bs) ==
    Select([cols  |-> <<"A", "B">>,
            index |-> index,
            rows  |-> [r \in DOMAIN as |-> <<as[r], bs[r]>>]], cols)

InitPair ==
    /\ \E n \in 0..MaxPair :
          \E as \in [1..n -> PairValues("A")],
             bs \in [1..n -> PairValues("B")] :
                df = PairFrame(<<"A", "B">>, RangeIndex(n), as, bs)
    /\ \E n \in 0..MaxPair :
          \E cols \in PairColumnsArgs,
             index \in PairIndexes(n),
             as \in [1..n -> PairValues("A")],
             bs \in [1..n -> PairValues("B")] :
                other = PairFrame(cols, index, as, bs)
    /\ call = NoCall
    /\ out = NoText
    /\ back = NoText
    /\ pc = "start"
    /\ schema = NoSchema
    /\ opts = NoOpts
    /\ data = df
    /\ shared = FALSE

\* assert_frame_equal(df, other, ...): every step works on a new frame, and
\* nothing is returned
AssertFrameEqual(ignore_index, ignore_columns, ignore_row_order) ==
    /\ pc = "start"
    /\ call' = [op |-> "assert_frame_equal",
                ignore_index |-> ignore_index,
                ignore_columns |-> ignore_columns,
                ignore_row_order |-> ignore_row_order]
    /\ out' = assert_frame_equal(df, other, ignore_index, ignore_columns,
                                 ignore_row_order)
    /\ pc' = "called"
    /\ UNCHANGED <<df, other, back, schema, opts, data, shared>>

NextPair ==
    \E ignore_index \in BOOLEAN, ignore_columns \in {<<>>, <<"B">>},
       ignore_row_order \in BOOLEAN :
          AssertFrameEqual(ignore_index, ignore_columns, ignore_row_order)

SpecPair == InitPair /\ [][NextPair]_vars

----------------------------------------------------------------------------
(* C23: assert_frame_equal with ignore_row_order *)

\* how many rows of t hold the cells of row
RowCount(t, row) ==
    Cardinality({r \in DOMAIN t.rows :
                    \A c \in DOMAIN t.cols : SameCell(t.rows[r][c], row[c])})

\* the two frames hold the same rows, each as many times
SameRows(left, right) ==
    /\ Len(left.rows) = Len(right.rows)
    /\ \A r \in DOMAIN left.rows :
          RowCount(left, left.rows[r]) = RowCount(right, left.rows[r])

ComparedAnyOrder ==
    /\ pc = "called"
    /\ call.op = "assert_frame_equal"
    /\ call.ignore_row_order
    /\ call.ignore_columns = <<>>

\* C23: with ignore_row_order=True and no column ignored, for two frames with
\* the same columns in the same order assert_frame_equal passes exactly when
\* the frames hold the same rows, each as many times, whatever the order of
\* the rows and whatever the row labels; and it fails when the columns
\* differ.
C23_PassesOnSameRows ==
    ComparedAnyOrder
        => /\ df.cols = other.cols => (out = Passed <=> SameRows(df, other))
           /\ df.cols # other.cols => out = AssertionError

C23_Witness ==
    /\ ComparedAnyOrder
    /\ ~call.ignore_index
    /\ out = Passed
    /\ df.index # other.index
    /\ df.rows # other.rows
    /\ \E r \in DOMAIN df.rows : RowCount(df, df.rows[r]) = 1

=============================================================================
